---- MODULE Spec2Model ----
(***************************************************************************)
(* Flag-configuration cache of the Feature Flag Service, as laid down in   *)
(* the service's design document (section 5.1, Caching Strategy): a cache  *)
(* layer holds a copy of a flag configuration tagged with the version it   *)
(* last received, refreshes it by background polling, receives streamed    *)
(* updates when the flag changes, and falls back to the cached values when *)
(* the service is unreachable.                                             *)
(*                                                                         *)
(* The repository contains no evaluation engine, bucketing function or     *)
(* segment resolver; none of them is modelled here.  Its one piece of code *)
(* is the organizations router of features/organization.js.                *)
(***************************************************************************)
EXTENDS Integers, Sequences, FiniteSets

\* ---------------------------------------------------------------- bounds
MaxVersion == 3        \* highest version the database reaches
MaxFailures == 2       \* highest count of consecutive refresh failures
GracePeriod == 1       \* "configurable grace period for stale cache data"
MaxLen == 3            \* longest notification sequence of the fold check

\* ------------------------------------------------------ program constants
TTL == 5               \* "TTL: Configurable with default of 5 minutes"
PollInterval == 1      \* "Periodic refresh (default: 1 minute)"

Versions == 1..MaxVersion

VARIABLES
  dbVersion,   \* version of the flag configuration in the database
  reachable,   \* whether the service is reachable from the cache holder
  entry,       \* the cached flag entry: present, version, age
  pollResp,    \* version carried by the refresh response in flight, 0 = none
  stream,      \* versions published to the connected SDK, not yet received
  failures,    \* consecutive refresh failures
  last,        \* the last observed evaluation, notification or refresh
  trial,       \* the notification sequence of the fold check
  http         \* the organizations router: request, response, an earlier exchange

vars == <<dbVersion, reachable, entry, pollResp, stream, failures, last, trial, http>>

NoEntry == [present |-> FALSE, version |-> 0, age |-> 0]

NoEvent == [op |-> "none", state |-> "ABSENT", v |-> 0, before |-> 0,
            after |-> 0, refreshing |-> FALSE, failing |-> FALSE,
            unchanged |-> TRUE]

NoTrial == [c0 |-> 0, pending |-> <<>>, applied |-> <<>>]

\* A response object before any handler touched it, and the router's state
\* before any request.
NoRequest == [method |-> "", path |-> <<>>]

NewResponse == [status |-> 200, body |-> <<>>, sends |-> 0]

NoExchange == [req |-> NoRequest, res |-> NewResponse]

NoHttp == [req |-> NoRequest, res |-> NewResponse, kept |-> NoExchange]

\* State of the cached entry: an entry past its refresh deadline is stale.
CacheState ==
  IF ~entry.present
    THEN IF pollResp # 0 THEN "LOADING" ELSE "ABSENT"
    ELSE IF entry.age < TTL THEN "FRESH" ELSE "STALE"

\* "Only update cache when newer version is available."
ApplyNotificationAlways(e, v) == [e EXCEPT !.version = v, !.age = 0]

ApplyNotificationIfDifferent(e, v) ==
  IF v # e.version THEN [e EXCEPT !.version = v, !.age = 0] ELSE e

ApplyNotification(e, v) ==
  IF v > e.version THEN [e EXCEPT !.version = v, !.age = 0] ELSE e

\* A completed background refresh: installs the configuration when nothing
\* is cached, otherwise follows the same newer-version rule; a response that
\* confirms the cached version keeps the cache fresh.
ApplyRefreshOverwrite(e, r) == [present |-> TRUE, version |-> r, age |-> 0]

ApplyRefresh(e, r) ==
  IF ~e.present THEN [present |-> TRUE, version |-> r, age |-> 0]
  ELSE IF r >= e.version THEN [e EXCEPT !.version = r, !.age = 0]
  ELSE e

\* The values an evaluation is answered from: the cached configuration.
ServedVersion(e) == e.version

InitCache ==
  /\ dbVersion = 1
  /\ reachable = TRUE
  /\ entry = NoEntry
  /\ pollResp = 0
  /\ stream = {}
  /\ failures = 0
  /\ last = NoEvent

Init == InitCache /\ trial = NoTrial /\ http = NoHttp

\* "Flag changes update database"; the change is published to connected SDKs.
UpdateFlagSilent ==
  /\ dbVersion < MaxVersion
  /\ dbVersion' = dbVersion + 1
  /\ UNCHANGED <<reachable, entry, pollResp, stream, failures, last, trial, http>>

UpdateFlag ==
  /\ dbVersion < MaxVersion
  /\ dbVersion' = dbVersion + 1
  /\ stream' = IF reachable THEN stream \cup {dbVersion + 1} ELSE stream
  /\ UNCHANGED <<reachable, entry, pollResp, failures, last, trial, http>>

ServiceDown ==
  /\ reachable
  /\ reachable' = FALSE
  /\ UNCHANGED <<dbVersion, entry, pollResp, stream, failures, last, trial, http>>

ServiceUp ==
  /\ ~reachable
  /\ reachable' = TRUE
  /\ UNCHANGED <<dbVersion, entry, pollResp, stream, failures, last, trial, http>>

RefreshDue == ~entry.present \/ entry.age >= PollInterval

\* Background polling: the request reads the current configuration.
PollStart ==
  /\ pollResp = 0
  /\ RefreshDue
  /\ reachable
  /\ pollResp' = dbVersion
  /\ UNCHANGED <<dbVersion, reachable, entry, stream, failures, last, trial, http>>

\* "Use cached values if service is unreachable": a failed refresh leaves
\* the cache as it is.
PollFail ==
  /\ \/ pollResp = 0 /\ RefreshDue /\ ~reachable
     \/ pollResp # 0
  /\ pollResp' = 0
  /\ failures' = IF failures < MaxFailures THEN failures + 1 ELSE failures
  /\ UNCHANGED <<dbVersion, reachable, entry, stream, last, trial, http>>

PollComplete ==
  /\ pollResp # 0
  /\ entry' = ApplyRefresh(entry, pollResp)
  /\ pollResp' = 0
  /\ failures' = 0
  /\ last' = [NoEvent EXCEPT !.op = "refresh", !.state = CacheState,
                !.v = pollResp, !.before = entry.version,
                !.after = entry'.version, !.unchanged = (entry' = entry)]
  /\ UNCHANGED <<dbVersion, reachable, stream, trial, http>>

\* Streaming update received by the SDK, in any order relative to refreshes.
\* A notification for a flag that is not cached updates nothing.
DeliverInstalling(v) ==
  /\ v \in stream
  /\ stream' = stream \ {v}
  /\ entry' = IF entry.present THEN ApplyNotification(entry, v)
                              ELSE [present |-> TRUE, version |-> v, age |-> 0]
  /\ last' = [NoEvent EXCEPT !.op = "note", !.state = CacheState, !.v = v,
                !.before = entry.version, !.after = entry'.version,
                !.unchanged = (entry' = entry)]
  /\ UNCHANGED <<dbVersion, reachable, pollResp, failures, trial, http>>

Deliver(v) ==
  /\ v \in stream
  /\ stream' = stream \ {v}
  /\ entry' = IF entry.present THEN ApplyNotification(entry, v) ELSE entry
  /\ last' = [NoEvent EXCEPT !.op = "note", !.state = CacheState, !.v = v,
                !.before = entry.version, !.after = entry'.version,
                !.unchanged = (entry' = entry)]
  /\ UNCHANGED <<dbVersion, reachable, pollResp, failures, trial, http>>

\* A streamed update lost with the connection.
StreamDrop(v) ==
  /\ v \in stream
  /\ ~reachable
  /\ stream' = stream \ {v}
  /\ UNCHANGED <<dbVersion, reachable, entry, pollResp, failures, last, trial, http>>

Tick ==
  /\ entry.present
  /\ entry.age < TTL + GracePeriod
  /\ entry' = [entry EXCEPT !.age = entry.age + 1]
  /\ UNCHANGED <<dbVersion, reachable, pollResp, stream, failures, last, trial, http>>

\* End of the grace period for stale cache data.
Evict ==
  /\ entry.present
  /\ entry.age >= TTL + GracePeriod
  /\ entry' = NoEntry
  /\ UNCHANGED <<dbVersion, reachable, pollResp, stream, failures, last, trial, http>>

\* An evaluation against the cached configuration.
EvaluateBlocking ==
  /\ entry.present
  /\ pollResp = 0
  /\ last' = [NoEvent EXCEPT !.op = "eval", !.state = CacheState,
                !.v = ServedVersion(entry), !.before = entry.version,
                !.after = entry.version,
                !.refreshing = (pollResp # 0), !.failing = (failures > 0)]
  /\ UNCHANGED <<dbVersion, reachable, entry, pollResp, stream, failures, trial, http>>

Evaluate ==
  /\ entry.present
  /\ last' = [NoEvent EXCEPT !.op = "eval", !.state = CacheState,
                !.v = ServedVersion(entry), !.before = entry.version,
                !.after = entry.version,
                !.refreshing = (pollResp # 0), !.failing = (failures > 0)]
  /\ UNCHANGED <<dbVersion, reachable, entry, pollResp, stream, failures, trial, http>>

Next ==
  \/ UpdateFlag
  \/ ServiceDown
  \/ ServiceUp
  \/ PollStart
  \/ PollFail
  \/ PollComplete
  \/ \E v \in Versions : Deliver(v)
  \/ \E v \in Versions : StreamDrop(v)
  \/ Tick
  \/ Evict
  \/ Evaluate

Spec == Init /\ [][Next]_vars

\* ------------------------------------------------------------------------
\* Folding a sequence of change notifications over one cached entry.

RECURSIVE SeqsUpTo(_)
SeqsUpTo(n) ==
  IF n = 0 THEN {<<>>}
  ELSE LET shorter == SeqsUpTo(n - 1)
       IN  shorter \cup {Append(s, v) : s \in {t \in shorter : Len(t) = n - 1},
                                        v \in Versions}

Range(s) == {s[i] : i \in 1..Len(s)}

Max(S) == CHOOSE m \in S : \A x \in S : x <= m

InitNotify ==
  /\ dbVersion = MaxVersion
  /\ reachable = TRUE
  /\ pollResp = 0
  /\ stream = {}
  /\ failures = 0
  /\ last = NoEvent
  /\ http = NoHttp
  /\ \E c \in Versions, s \in SeqsUpTo(MaxLen) :
       /\ entry = [present |-> TRUE, version |-> c, age |-> 0]
       /\ trial = [c0 |-> c, pending |-> s, applied |-> <<>>]

Notify ==
  /\ trial.pending # <<>>
  /\ entry' = ApplyNotification(entry, Head(trial.pending))
  /\ trial' = [trial EXCEPT !.pending = Tail(trial.pending),
                            !.applied = Append(trial.applied, Head(trial.pending))]
  /\ UNCHANGED <<dbVersion, reachable, pollResp, stream, failures, last, http>>

NextNotify == Notify

SpecNotify == InitNotify /\ [][NextNotify]_vars

\* ------------------------------------------------------------------------
\* C1: a change notification with version v replaces the cached version of
\* an entry only if v is greater than the cached version, a notification
\* with v at most the cached version leaves the entry unchanged, and the
\* cached version of an entry never decreases.
NoteRule ==
  (last.op = "note" /\ last.state \in {"FRESH", "STALE"}) =>
    IF last.v > last.before
      THEN last.after = last.v
      ELSE last.unchanged /\ last.after = last.before

VersionStep ==
  (entry.present /\ entry'.present) => entry'.version >= entry.version

FailureKeepsSnapshot ==
  [][(PollFail \/ \E v \in Versions : StreamDrop(v)) => entry' = entry]_vars

\* ------------------------------------------------------------------------
\* The organizations router (features/organization.js).

OrgIds == {"o1", "o2"}

Methods == {"GET", "POST", "PATCH", "DELETE", "PUT"}

Base == <<"api", "v1", "organizations">>

Paths ==
  {Base, <<"api", "v1", "projects">>, Base \o <<"o1", "members">>}
    \cup {Base \o <<id>> : id \in OrgIds}

Requests == [method : Methods, path : Paths]

\* res.status(code) and res.send(body)
status(res, code) == [res EXCEPT !.status = code]

send(res, body) == [res EXCEPT !.body = body, !.sends = res.sends + 1]

\* A route path matches a request path segment by segment; a segment that
\* begins with a colon is a parameter and matches any one segment.
IsParam(seg) == seg = ":organizationId"

PathMatches(pattern, path) ==
  /\ Len(pattern) = Len(path)
  /\ \A i \in 1..Len(pattern) : IsParam(pattern[i]) \/ pattern[i] = path[i]

\* req.params.organizationId
organizationId(req) == req.path[Len(Base) + 1]

\* The four handlers.
GetOrganizations(req, res) == send(status(res, 300), <<"get organization">>)

CreateOrganization(req, res) == send(status(res, 300), <<"create organization">>)

GetOrganizationByIdOk(req, res) ==
  send(res, <<"API underconstruction ", organizationId(req)>>)

GetOrganizationById(req, res) ==
  send(status(res, 300), <<"API underconstruction ", organizationId(req)>>)

UpdateOrganization(req, res) == send(status(res, 300), <<"update organization">>)

\* The routes in the order they are registered.
Routes ==
  << [method |-> "GET",   path |-> Base, handler |-> "get"],
     [method |-> "POST",  path |-> Base, handler |-> "create"],
     [method |-> "GET",   path |-> Base \o <<":organizationId">>, handler |-> "getById"],
     [method |-> "PATCH", path |-> Base, handler |-> "update"] >>

RouteMatches(route, req) ==
  route.method = req.method /\ PathMatches(route.path, req.path)

Matching(req) == {i \in 1..Len(Routes) : RouteMatches(Routes[i], req)}

Handle(name, req, res) ==
  CASE name = "get" -> GetOrganizations(req, res)
    [] name = "create" -> CreateOrganization(req, res)
    [] name = "getById" -> GetOrganizationById(req, res)
    [] name = "update" -> UpdateOrganization(req, res)

\* The router hands the request to the first matching route; no handler
\* calls next, so no later route runs.  Without a matching route the request
\* leaves the router unanswered.
Dispatch(req) ==
  IF Matching(req) = {} THEN NewResponse
  ELSE LET i == CHOOSE k \in Matching(req) : \A j \in Matching(req) : k <= j
       IN  Handle(Routes[i].handler, req, NewResponse)

InitRouter == InitCache /\ trial = NoTrial /\ http = NoHttp

\* One request through the router; the exchange before it may be kept for
\* comparison with later ones.
Request(req) ==
  /\ \E keep \in BOOLEAN :
       http' = [req |-> req, res |-> Dispatch(req),
                kept |-> IF keep /\ http.req # NoRequest
                           THEN [req |-> http.req, res |-> http.res]
                           ELSE http.kept]
  /\ UNCHANGED <<dbVersion, reachable, entry, pollResp, stream, failures,
                 last, trial>>

NextRouter == \E req \in Requests : Request(req)

SpecRouter == InitRouter /\ [][NextRouter]_vars

\* The management endpoints the design document lists for organizations.
DocumentedEndpoints ==
  { [method |-> "GET",    path |-> Base],
    [method |-> "POST",   path |-> Base],
    [method |-> "GET",    path |-> Base \o <<":organizationId">>],
    [method |-> "PATCH",  path |-> Base \o <<":organizationId">>],
    [method |-> "DELETE", path |-> Base \o <<":organizationId">>] }

IsDocumented(req) ==
  \E e \in DocumentedEndpoints :
    e.method = req.method /\ PathMatches(e.path, req.path)

\* C11: a request to any of the five documented organization endpoints is
\* handled by a route of the router.
C11_DocumentedEndpointsServed ==
  IsDocumented(http.req) => (Matching(http.req) # {} /\ http.res.sends = 1)

\* C20: every request matched by a route receives exactly one response, with
\* status 300 and the placeholder body of its route (the by-id route embeds
\* the organizationId), and the same request gets the same response as in
\* any earlier exchange.
PlaceholderBody(req) ==
  IF Len(req.path) = Len(Base) + 1
    THEN <<"API underconstruction ", req.path[Len(req.path)]>>
    ELSE CASE req.method = "GET" -> <<"get organization">>
           [] req.method = "POST" -> <<"create organization">>
           [] req.method = "PATCH" -> <<"update organization">>

C20_PlaceholderResponse ==
  /\ Matching(http.req) # {} =>
       /\ http.res.sends = 1
       /\ http.res.status = 300
       /\ http.res.body = PlaceholderBody(http.req)
  /\ http.kept.req = http.req => http.kept.res = http.res

C20_Witness ==
  /\ http.req = [method |-> "GET", path |-> Base \o <<"o2">>]
  /\ http.res.body = <<"API underconstruction ", "o2">>
  /\ http.kept.req = http.req
  /\ http.res.sends = 1

ListedMoves ==
  { <<"ABSENT", "LOADING">>, <<"LOADING", "FRESH">>, <<"FRESH", "STALE">>,
    <<"STALE", "ABSENT">> }

RefreshMoves ==
  { <<"STALE", "FRESH">>, <<"LOADING", "ABSENT">>, <<"STALE", "LOADING">> }

MovesWithin(moves) ==
  /\ CacheState' # CacheState => <<CacheState, CacheState'>> \in moves
  /\ (CacheState = "FRESH" /\ CacheState' = "FRESH"
        /\ entry'.version # entry.version) => entry'.version > entry.version

CarriesVersion ==
  CacheState \in {"FRESH", "STALE"} => entry.version \in Versions

NextReliable ==
  \/ UpdateFlag
  \/ PollStart
  \/ PollComplete
  \/ \E v \in Versions : Deliver(v)
  \/ Tick
  \/ Evict
  \/ Evaluate

Fairness ==
  /\ WF_vars(\E v \in Versions : Deliver(v))
  /\ WF_vars(PollStart)
  /\ WF_vars(PollComplete)
  /\ WF_vars(Tick)

SpecReliable == Init /\ [][NextReliable]_vars /\ Fairness

\* C15: every mutation of the flag configuration publishes a change event
\* carrying the new version, a delivered event leaves a cached entry at that
\* version or a later one, and once the event for a version is published the
\* cache eventually holds that version or a later one.
EmitsEvent == dbVersion' # dbVersion => dbVersion' \in stream'

DeliveryApplies ==
  \A v \in Versions :
    (Deliver(v) /\ entry.present) => (entry'.present /\ entry'.version >= v)

====
